---------------------------- MODULE Spec2Model ----------------------------
(***************************************************************************)
(* Model of the MPC1000 -> SP-303 tools:                                   *)
(*   organize_sp303_banks.py  parse_pgm_file, find_wav_file,               *)
(*                            create_sp303_banks                           *)
(*   preprocess_sp303_wavs.py get_wav_info, is_too_short,                  *)
(*                            is_sp303_compatible, pad_short_sample,       *)
(*                            convert_format, preprocess_directory         *)
(*                                                                         *)
(* Bytes are naturals 0..255, byte strings and text strings are sequences  *)
(* of character codes.  Python's 0-based half-open slices are translated   *)
(* by Slice.                                                               *)
(***************************************************************************)
EXTENDS Integers, Sequences, FiniteSets, TLC

(***************************************************************************)
(* Bounds of the model (not program constants).                            *)
(***************************************************************************)
\* longest list of freely chosen records in a generated descriptor
MaxRecs == 3
\* longest directory listing find_wav_file is called on
MaxListing == 3
\* largest frame count of the freely chosen short audio files
MaxShortFrames == 3
\* largest number of files in the directory preprocess_directory walks
MaxFiles == 2

(***************************************************************************)
(* Program constants of organize_sp303_banks.py.                           *)
(***************************************************************************)
PAD_ENTRY_SIZE == 164
FIRST_SAMPLE_OFFSET == 24
SAMPLE_NAME_SIZE == 16
MAX_PADS == 64
HEADER_START == 4
HEADER_END == 20
PADS_PER_BANK == 8

\* 'MPC1000 PGM'
MAGIC == <<77, 80, 67, 49, 48, 48, 48, 32, 80, 71, 77>>

\* bank_names = ['A', ..., 'H'] as character codes
bank_names == <<65, 66, 67, 68, 69, 70, 71, 72>>

(***************************************************************************)
(* Python primitives used by the code.                                     *)
(***************************************************************************)
Min(a, b) == IF a < b THEN a ELSE b

\* s[a:b] for 0 <= a <= b
Slice(s, a, b) == SubSeq(s, a + 1, Min(b, Len(s)))

\* bytes.decode('ascii', errors='ignore'): bytes >= 128 are dropped
IsAscii(b) == b < 128
DecodeAsciiIgnore(bs) == SelectSeq(bs, IsAscii)

\* needle in hay
Contains(hay, needle) ==
    \E i \in 0..(Len(hay) - Len(needle)) :
        SubSeq(hay, i + 1, i + Len(needle)) = needle

\* str.lower() on ASCII text
LowerChar(c) == IF c >= 65 /\ c <= 90 THEN c + 32 ELSE c
Lower(s) == [i \in 1..Len(s) |-> LowerChar(s[i])]

\* the characters str.strip() removes (ASCII whitespace)
IsSpace(c) == c \in {9, 10, 11, 12, 13, 28, 29, 30, 31, 32}

RECURSIVE LStrip(_)
LStrip(s) == IF s # <<>> /\ IsSpace(Head(s)) THEN LStrip(Tail(s)) ELSE s

RECURSIVE RStrip(_)
RStrip(s) ==
    IF s # <<>> /\ IsSpace(s[Len(s)]) THEN RStrip(SubSeq(s, 1, Len(s) - 1))
    ELSE s

Strip(s) == RStrip(LStrip(s))

(***************************************************************************)
(* parse_pgm_file: pure parts.                                             *)
(***************************************************************************)
\* header = data[4:20].decode('ascii', errors='ignore')
HeaderText(d) == DecodeAsciiIgnore(Slice(d, HEADER_START, HEADER_END))

\* faulty variant: the magic is searched from the start of the buffer
HeaderOkFromStart(d) ==
    Contains(DecodeAsciiIgnore(Slice(d, 0, HEADER_END)), MAGIC)

\* 'MPC1000 PGM' in header
HeaderOk(d) == Contains(HeaderText(d), MAGIC)

IsPrintable(b) == 32 <= b /\ b <= 126

\* the byte loop over sample_name_raw: keep printable bytes, stop at a null
\* byte, drop every other byte
RECURSIVE DecodeFrom(_, _)
DecodeFrom(raw, i) ==
    IF i > Len(raw) THEN <<>>
    ELSE IF IsPrintable(raw[i]) THEN <<raw[i]>> \o DecodeFrom(raw, i + 1)
    ELSE IF raw[i] = 0 THEN <<>>
    ELSE DecodeFrom(raw, i + 1)

\* the cleaned sample name of a raw 16-byte field
CleanName(raw) == Strip(DecodeFrom(raw, 1))

\* not sample_name or len(sample_name) < 2
InvalidName(name) == name = <<>> \/ Len(name) < 2

\* faulty variant: < for <=, a name field ending the buffer is not read
ScanGuardStrict(d, off, idx) ==
    off + SAMPLE_NAME_SIZE < Len(d) /\ idx < MAX_PADS

\* while offset + SAMPLE_NAME_SIZE <= len(data) and pad_index < 64
ScanGuard(d, off, idx) == off + SAMPLE_NAME_SIZE <= Len(d) /\ idx < MAX_PADS

\* faulty variant: every invalid record ends the scan
GapToleratedNever(idx) == FALSE

\* if pad_index > 0: an invalid record is skipped
GapTolerated(idx) == idx > 0

\* pads[k] = name
DictSet(m, k, v) == [x \in (DOMAIN m) \cup {k} |-> IF x = k THEN v ELSE m[x]]

EmptyDict == [x \in {} |-> <<>>]


(***************************************************************************)
(* find_wav_file over a directory listing.  wav_dir is the sequence of     *)
(* stems of the files matching *.wav, in the order glob yields them; on a  *)
(* case-sensitive file system '<name>.wav' exists exactly when the listing *)
(* holds a stem equal to the name.                                         *)
(***************************************************************************)
NotFound == [found |-> FALSE, stem |-> <<>>]
Found(stem) == [found |-> TRUE, stem |-> stem]

\* (Path(wav_dir) / f"{sample_name_clean}.wav").exists()
ExactExists(clean, dir) == \E i \in 1..Len(dir) : dir[i] = clean

\* wav_file.stem.lower() == sample_name_clean.lower()
StemEquals(stem, clean) == Lower(stem) = Lower(clean)

\* sample_name_clean.lower() in wav_file.stem.lower()
StemContains(stem, clean) == Contains(Lower(stem), Lower(clean))

\* first loop: index of the first file whose stem equals the name ignoring
\* case, 0 when the loop ends without returning
FirstEqual(dir, clean) ==
    IF \E i \in 1..Len(dir) : StemEquals(dir[i], clean)
    THEN CHOOSE i \in 1..Len(dir) :
            /\ StemEquals(dir[i], clean)
            /\ \A j \in 1..(i - 1) : ~StemEquals(dir[j], clean)
    ELSE 0

\* second loop: index of the first file whose stem contains the name
FirstContaining(dir, clean) ==
    IF \E i \in 1..Len(dir) : StemContains(dir[i], clean)
    THEN CHOOSE i \in 1..Len(dir) :
            /\ StemContains(dir[i], clean)
            /\ \A j \in 1..(i - 1) : ~StemContains(dir[j], clean)
    ELSE 0

\* faulty variant: the substring loop runs before the case-insensitive one
find_wav_file_partial_first(sample_name, dir) ==
    LET clean == Strip(sample_name)
        ci == FirstEqual(dir, clean)
        part == FirstContaining(dir, clean)
    IN  IF ExactExists(clean, dir) THEN Found(clean)
        ELSE IF part # 0 THEN Found(dir[part])
        ELSE IF ci # 0 THEN Found(dir[ci])
        ELSE NotFound

find_wav_file(sample_name, dir) ==
    LET clean == Strip(sample_name)
        ci == FirstEqual(dir, clean)
        part == FirstContaining(dir, clean)
    IN  IF ExactExists(clean, dir) THEN Found(clean)
        ELSE IF ci # 0 THEN Found(dir[ci])
        ELSE IF part # 0 THEN Found(dir[part])
        ELSE NotFound

(***************************************************************************)
(* create_sp303_banks: output names.                                       *)
(***************************************************************************)
\* f"{n:04d}" for 0 <= n <= 9999
Format04d(n) ==
    << 48 + ((n \div 1000) % 10), 48 + ((n \div 100) % 10),
       48 + ((n \div 10) % 10), 48 + (n % 10) >>

\* f"Bank_{bank_name}"
BankDirName(letter) == <<66, 97, 110, 107, 95, letter>>

\* f"SMPL{pad_in_bank+1:04d}.WAV"
SlotNumber(pib) == pib + 1
SlotFileName(pib) ==
    <<83, 77, 80, 76>> \o Format04d(SlotNumber(pib)) \o <<46, 87, 65, 86>>

\* faulty variant: the bank index is not scaled by the bank size
GlobalPadNumUnscaled(b, pib) == b + pib

\* global_pad_num = bank_idx * 8 + pad_in_bank
GlobalPadNum(b, pib) == b * PADS_PER_BANK + pib

(***************************************************************************)
(* Descriptors and directory listings the runs start from.                 *)
(***************************************************************************)
Zeros(n) == [i \in 1..n |-> 0]
Field(name) == name \o Zeros(SAMPLE_NAME_SIZE - Len(name))

T_KICK == <<75, 73, 67, 75>>
T_SN == <<83, 78>>
T_LONG == <<65, 66, 67, 68, 69, 70, 71, 72, 73, 74, 75, 76, 77, 78, 79, 80>>

F_KICK == Field(T_KICK)
F_LONG == Field(T_LONG)
F_EMPTY == Field(<<>>)
F_ONE == Field(<<65>>)
\* \x01 ' ' 'S' \xc8 'N' ' ' \x00 'X' 'Y' \x00 ...
F_DIRTY == Field(<<1, 32, 83, 200, 78, 32, 0, 88, 89>>)

Fields == {F_KICK, F_LONG, F_EMPTY, F_ONE, F_DIRTY}

\* 'Aa', 'Ab', ..., 'Hh': one distinct two-letter name per pad
PadName(k) == <<65 + (k \div 8), 97 + (k % 8)>>
FullList(n) == [k \in 1..n |-> Field(PadName(k - 1))]

\* every list of at most MaxRecs records
ShortLists == UNION {[1..n -> Fields] : n \in 0..MaxRecs}

\* descriptors that fill, or overfill, all 64 pads
FullLists ==
    {FullList(MAX_PADS), FullList(MAX_PADS + 1),
     FullList(MAX_PADS) \o <<F_EMPTY>>}

\* 4 bytes, the 16-byte header text, 4 bytes
Hdr(text) == <<4, 42, 0, 0>> \o text \o <<0, 0, 0, 0>>
\* 'MPC1000 PGM 1.00'
H_VALID == Hdr(MAGIC \o <<32, 49, 46, 48, 48>>)
\* 'MPC2000 PGM 1.00'
H_BAD == Hdr(<<77, 80, 67, 50, 48, 48, 48, 32, 80, 71, 77, 32, 49, 46, 48, 48>>)
\* 'MPC' \x80 '1000 PGM 1.0'
H_HIGH == Hdr(<<77, 80, 67, 128, 49, 48, 48, 48, 32, 80, 71, 77, 32, 49, 46, 48>>)
\* the magic at offset 0, so that bytes [4,20) start with '000 PGM'
H_SHIFT == MAGIC \o <<32, 49, 46, 48, 48>> \o Zeros(8)

Headers == {H_VALID, H_BAD, H_HIGH, H_SHIFT}

Tails == {"full", "name", "partial", "short"}

\* bytes of a record after its name field (lowercase letters)
FillByte(j) == 97 + (j % 26)

Buffer(h, recs, t) ==
    LET n == Len(recs)
        full == FIRST_SAMPLE_OFFSET + PAD_ENTRY_SIZE * n
        len == CASE t = "full" -> full
                 [] t = "name" ->
                      IF n = 0 THEN full
                      ELSE full - (PAD_ENTRY_SIZE - SAMPLE_NAME_SIZE)
                 [] t = "partial" ->
                      IF n = 0 THEN full
                      ELSE full - (PAD_ENTRY_SIZE - SAMPLE_NAME_SIZE) - 1
                 [] OTHER -> 12
    IN  [i \in 1..len |->
            IF i <= FIRST_SAMPLE_OFFSET THEN h[i]
            ELSE LET k == (i - 1 - FIRST_SAMPLE_OFFSET) \div PAD_ENTRY_SIZE
                     j == (i - 1 - FIRST_SAMPLE_OFFSET) % PAD_ENTRY_SIZE
                 IN  IF j < SAMPLE_NAME_SIZE THEN recs[k + 1][j + 1]
                     ELSE FillByte(j)]

\* every short list under the valid header, the shorter ones under every
\* header and cut short as well, and the full ones
Descriptors ==
    {Buffer(H_VALID, r, t) : r \in ShortLists, t \in Tails \ {"short"}}
    \cup {Buffer(h, r, t) :
            h \in Headers, r \in {l \in ShortLists : Len(l) < MaxRecs},
            t \in Tails}
    \cup {Buffer(H_VALID, r, "full") : r \in FullLists}

\* kick2.wav kick.wav SN.wav
DIR_A == <<<<107, 105, 99, 107, 50>>, <<107, 105, 99, 107>>, T_SN>>
\* KICK.wav  Aa.wav  bC.WAV-free listing with mixed-case stems  hh.wav
DIR_B == <<T_KICK, PadName(0), <<98, 67>>, <<104, 104>>, <<120, 72, 97, 120>>>>

Listings == {<<>>, DIR_A, DIR_B}

(***************************************************************************)
(* State of one create_sp303_banks run (which calls parse_pgm_file).       *)
(***************************************************************************)
VARIABLES
    pc,          \* position in the run
    data,        \* parse_pgm_file: the bytes read from the .pgm file
    pads,        \* parse_pgm_file: pad_index -> sample name
    pad_index,   \* parse_pgm_file
    offset,      \* parse_pgm_file
    scanned,     \* offsets of the name fields read so far (trace)
    wav_dir,     \* listing of the WAV directory
    bank_idx,    \* create_sp303_banks
    pad_in_bank, \* create_sp303_banks
    bank_dirs,   \* bank directories created so far
    copies,      \* shutil.copy2 calls completed, in order
    report       \* per-pad outcome lines printed, in order

orgvars == <<pc, data, pads, pad_index, offset, scanned, wav_dir, bank_idx,
             pad_in_bank, bank_dirs, copies, report>>

OrgInit ==
    /\ pc = "header"
    /\ data \in Descriptors
    /\ wav_dir \in Listings
    /\ pads = EmptyDict
    /\ pad_index = 0
    /\ offset = 0
    /\ scanned = <<>>
    /\ bank_idx = 0
    /\ pad_in_bank = 0
    /\ bank_dirs = {}
    /\ copies = <<>>
    /\ report = <<>>

\* lines 23-44: read the file, check the header, set up the scan
CheckHeader ==
    /\ pc = "header"
    /\ IF HeaderOk(data)
       THEN /\ pc' = "scan"
            /\ pads' = EmptyDict
            /\ pad_index' = 0
            /\ offset' = FIRST_SAMPLE_OFFSET
       ELSE /\ pc' = "ValueError"
            /\ UNCHANGED <<pads, pad_index, offset>>
    /\ UNCHANGED <<data, scanned, wav_dir, bank_idx, pad_in_bank, bank_dirs,
                   copies, report>>

\* lines 46-80: one iteration of the while loop.  Nothing in the try block
\* can raise, so the except branch (lines 75-77) has no transition.
ScanRecord ==
    /\ pc = "scan"
    /\ ScanGuard(data, offset, pad_index)
    /\ LET sample_name_raw == Slice(data, offset, offset + SAMPLE_NAME_SIZE)
           sample_name == CleanName(sample_name_raw)
       IN  /\ scanned' = Append(scanned, offset)
           /\ IF InvalidName(sample_name)
              THEN IF GapTolerated(pad_index)
                   THEN /\ pad_index' = pad_index + 1
                        /\ offset' = offset + PAD_ENTRY_SIZE
                        /\ UNCHANGED <<pc, pads>>
                   ELSE /\ pc' = "parsed"
                        /\ UNCHANGED <<pads, pad_index, offset>>
              ELSE /\ pads' = DictSet(pads, pad_index, sample_name)
                   /\ pad_index' = pad_index + 1
                   /\ offset' = offset + PAD_ENTRY_SIZE
                   /\ UNCHANGED pc
    /\ UNCHANGED <<data, wav_dir, bank_idx, pad_in_bank, bank_dirs, copies,
                   report>>

\* line 46 false: the loop ends, line 83 returns pads
ScanExit ==
    /\ pc = "scan"
    /\ ~ScanGuard(data, offset, pad_index)
    /\ pc' = "parsed"
    /\ UNCHANGED <<data, pads, pad_index, offset, scanned, wav_dir, bank_idx,
                   pad_in_bank, bank_dirs, copies, report>>

\* lines 114-120: parse_pgm_file has returned; its locals are gone
EnterBanks ==
    /\ pc = "parsed"
    /\ pc' = "bank"
    /\ data' = <<>>
    /\ pad_index' = 0
    /\ offset' = 0
    /\ scanned' = <<>>
    /\ bank_idx' = 0
    /\ UNCHANGED <<pads, wav_dir, pad_in_bank, bank_dirs, copies, report>>

\* lines 122-126: the next bank's directory is created
MakeBankDir ==
    /\ pc = "bank"
    /\ bank_dirs' = bank_dirs \cup {BankDirName(bank_names[bank_idx + 1])}
    /\ pad_in_bank' = 0
    /\ pc' = "pad"
    /\ UNCHANGED <<data, pads, pad_index, offset, scanned, wav_dir, bank_idx,
                   copies, report>>

\* end of one iteration of the inner loop (and of the outer one after the
\* bank's last pad, line 146)
Advance ==
    IF pad_in_bank + 1 < PADS_PER_BANK
    THEN /\ pad_in_bank' = pad_in_bank + 1
         /\ UNCHANGED <<pc, bank_idx>>
    ELSE /\ pad_in_bank' = pad_in_bank
         /\ bank_idx' = bank_idx + 1
         /\ pc' = IF bank_idx + 1 < Len(bank_names) THEN "bank" ELSE "done"

Line(kind) ==
    [pad |-> GlobalPadNum(bank_idx, pad_in_bank), slot |-> pad_in_bank + 1,
     kind |-> kind]

\* lines 128-144: one pad, every outcome that returns to the loop
ProcessPad ==
    /\ pc = "pad"
    /\ LET global_pad_num == GlobalPadNum(bank_idx, pad_in_bank)
       IN  IF global_pad_num \in DOMAIN pads
           THEN LET wav_file == find_wav_file(pads[global_pad_num], wav_dir)
                IN  IF wav_file.found
                    THEN /\ copies' = Append(copies,
                                [pad |-> global_pad_num,
                                 dir |-> BankDirName(bank_names[bank_idx + 1]),
                                 file |-> SlotFileName(pad_in_bank),
                                 src |-> wav_file.stem])
                         /\ report' = Append(report, Line("copied"))
                    ELSE /\ report' = Append(report, Line("NOT FOUND"))
                         /\ UNCHANGED copies
           ELSE /\ report' = Append(report, Line("No assignment"))
                /\ UNCHANGED copies
    /\ Advance
    /\ UNCHANGED <<data, pads, pad_index, offset, scanned, wav_dir, bank_dirs>>

\* line 139: shutil.copy2 raises; no handler encloses the call, so the
\* exception leaves create_sp303_banks
CopyRaises ==
    /\ pc = "pad"
    /\ LET global_pad_num == GlobalPadNum(bank_idx, pad_in_bank)
       IN  /\ global_pad_num \in DOMAIN pads
           /\ find_wav_file(pads[global_pad_num], wav_dir).found
    /\ pc' = "OSError"
    /\ UNCHANGED <<data, pads, pad_index, offset, scanned, wav_dir, bank_idx,
                   pad_in_bank, bank_dirs, copies, report>>

(***************************************************************************)
(* find_wav_file called on its own.  Names are stripped text, as           *)
(* parse_pgm_file produces them.                                           *)
(***************************************************************************)
\* 'KICK' 'kick' 'Kick' 'K' 'CK'
FindNames ==
    {<<75, 73, 67, 75>>, <<107, 105, 99, 107>>, <<75, 105, 99, 107>>,
     <<75>>, <<67, 75>>}
\* 'kick' 'KICK' 'kicK' 'kick2' 'xKICKx' 'K' 'ab'
FindStems ==
    {<<107, 105, 99, 107>>, <<75, 73, 67, 75>>, <<107, 105, 99, 75>>,
     <<107, 105, 99, 107, 50>>, <<120, 75, 73, 67, 75, 120>>, <<75>>,
     <<97, 98>>}

\* file names of one directory are distinct
FindListings ==
    {l \in UNION {[1..n -> FindStems] : n \in 0..MaxListing} :
        \A i, j \in 1..Len(l) : i # j => l[i] # l[j]}

VARIABLES
    f_pc,      \* "call" before find_wav_file runs, "ret" after
    f_name,    \* sample_name
    f_dir,     \* listing of wav_dir
    f_result   \* the value returned

findvars == <<f_pc, f_name, f_dir, f_result>>

FindInit ==
    /\ f_pc = "call"
    /\ f_name \in FindNames
    /\ f_dir \in FindListings
    /\ f_result = NotFound

FindCall ==
    /\ f_pc = "call"
    /\ f_result' = find_wav_file(f_name, f_dir)
    /\ f_pc' = "ret"
    /\ UNCHANGED <<f_name, f_dir>>

(***************************************************************************)
(* preprocess_sp303_wavs.py.  A WAV file is its format fields and its      *)
(* frame payload; the frame count is the payload length divided by the     *)
(* frame size, as the wave module reads and writes it.  Durations are      *)
(* exact rationals num/den; for every frame rate up to 200000 Hz the       *)
(* double-precision results of n / rate < 0.11 and int(0.11 * rate) equal  *)
(* the exact ones.                                                         *)
(***************************************************************************)
TARGET_RATE == 44100
TARGET_WIDTH == 2

\* MIN_DURATION = 0.11
MIN_DURATION == [num |-> 11, den |-> 100]
\* the literal 0 of the plain-copy call
ZERO_DURATION == [num |-> 0, den |-> 1]
\* the default the docstring names, 0.1
TENTH_DURATION == [num |-> 1, den |-> 10]

NoFile == [readable |-> FALSE, nchannels |-> 0, sampwidth |-> 0,
           framerate |-> 0, frames |-> <<>>]
\* a file wave.open cannot read
Garbage == [readable |-> FALSE, nchannels |-> 0, sampwidth |-> 0,
            framerate |-> 0, frames |-> <<1, 2, 3>>]

FrameSize(a) == a.nchannels * a.sampwidth
\* wav.getnframes()
NFrames(a) == Len(a.frames) \div FrameSize(a)
\* wav.readframes(params.nframes)
ReadFrames(a) == SubSeq(a.frames, 1, NFrames(a) * FrameSize(a))

\* wave.open(path, 'wb'); setparams(params); writeframes(data)
WaveWrite(a, bytes) ==
    [readable |-> TRUE, nchannels |-> a.nchannels, sampwidth |-> a.sampwidth,
     framerate |-> a.framerate, frames |-> bytes]

None == [ok |-> FALSE, channels |-> 0, sample_width |-> 0, framerate |-> 0,
         frames |-> 0]

get_wav_info(a) ==
    IF a.readable
    THEN [ok |-> TRUE, channels |-> a.nchannels, sample_width |-> a.sampwidth,
          framerate |-> a.framerate, frames |-> NFrames(a)]
    ELSE None

\* frames / framerate < d
DurationLess(frames, framerate, d) == frames * d.den < d.num * framerate

is_too_short(info) ==
    IF ~info.ok THEN FALSE
    ELSE DurationLess(info.frames, info.framerate, MIN_DURATION)

is_sp303_compatible(info) ==
    IF ~info.ok THEN FALSE
    ELSE /\ info.framerate = TARGET_RATE
         /\ info.sample_width = TARGET_WIDTH
         /\ info.channels \in {1, 2}
         /\ ~DurationLess(info.frames, info.framerate, MIN_DURATION)

\* int(target_duration * params.framerate)
TargetFrames(target, framerate) == (target.num * framerate) \div target.den

\* faulty variant: the channel count is left out of the silence length
SilenceBytesOneChannel(silence_frames, a) == silence_frames * a.sampwidth

\* silence_frames * params.nchannels * params.sampwidth
SilenceBytes(silence_frames, a) == silence_frames * a.nchannels * a.sampwidth

\* pad_short_sample without I/O failures: the result flag and the content of
\* the output path afterwards (same: input_path == output_path)
pad_short_sample(a, same, target) ==
    IF ~a.readable THEN [ok |-> FALSE, out |-> IF same THEN a ELSE NoFile]
    ELSE
      LET frames == ReadFrames(a)
          nframes == NFrames(a)
      IN  IF ~DurationLess(nframes, a.framerate, target)
          THEN [ok |-> TRUE, out |-> IF same THEN a ELSE WaveWrite(a, frames)]
          ELSE LET target_frames == TargetFrames(target, a.framerate)
                   silence_frames == target_frames - nframes
                   silence == Zeros(SilenceBytes(silence_frames, a))
               IN  [ok |-> TRUE, out |-> WaveWrite(a, frames \o silence)]

\* faulty variant: and for or
NeedsConversionBoth(framerate, sampwidth) ==
    framerate # TARGET_RATE /\ sampwidth # TARGET_WIDTH

\* params.framerate != 44100 or params.sampwidth != 2
NeedsConversion(framerate, sampwidth) ==
    framerate # TARGET_RATE \/ sampwidth # TARGET_WIDTH

\* convert_format without I/O failures: the data is written through unchanged
convert_format(a, same) ==
    IF ~a.readable THEN [ok |-> FALSE, out |-> IF same THEN a ELSE NoFile]
    ELSE [ok |-> ~NeedsConversion(a.framerate, a.sampwidth),
          out |-> IF same THEN a ELSE WaveWrite(a, ReadFrames(a))]

(***************************************************************************)
(* Audio files the runs start from.                                        *)
(***************************************************************************)
\* payload bytes, none of them zero
Sample(i) == 1 + ((i * 37) % 255)
Wav(ch, width, rate, n) ==
    [readable |-> TRUE, nchannels |-> ch, sampwidth |-> width,
     framerate |-> rate, frames |-> [i \in 1..(n * ch * width) |-> Sample(i)]]

PadRates == {44100, 22050, 16000, 11025}
\* (channels, sample width)
PadFormats == {<<1, 2>>, <<2, 2>>, <<1, 1>>, <<3, 2>>}
\* a few frames in every format, and the frame counts around the target
PadInputs ==
    {Garbage}
    \cup {Wav(f[1], f[2], r, n) :
            f \in PadFormats, r \in PadRates, n \in 0..MaxShortFrames}
    \cup UNION {{Wav(f[1], f[2], r, TargetFrames(MIN_DURATION, r) + d) :
                    f \in {<<1, 2>>, <<2, 1>>}, d \in {-1, 0, 1}} :
                r \in PadRates}

PadTargets == {MIN_DURATION, ZERO_DURATION, TENTH_DURATION}

(***************************************************************************)
(* pad_short_sample called on its own.                                     *)
(***************************************************************************)
VARIABLES
    p_pc,      \* "call" before pad_short_sample runs, "ret" after
    p_in,      \* the file at input_path
    p_same,    \* input_path == output_path
    p_target,  \* target_duration
    p_res      \* the flag returned and the file at output_path

padvars == <<p_pc, p_in, p_same, p_target, p_res>>

PadInit ==
    /\ p_pc = "call"
    /\ p_in \in PadInputs
    /\ p_same \in BOOLEAN
    /\ p_target \in PadTargets
    /\ p_res = [ok |-> FALSE, out |-> IF p_same THEN p_in ELSE NoFile]

\* lines 77-113
PadCall ==
    /\ p_pc = "call"
    /\ p_res' = pad_short_sample(p_in, p_same, p_target)
    /\ p_pc' = "ret"
    /\ UNCHANGED <<p_in, p_same, p_target>>

\* lines 115-117: opening or writing the output raises
PadRaises ==
    /\ p_pc = "call"
    /\ p_in.readable
    /\ ~p_same \/ DurationLess(NFrames(p_in), p_in.framerate, p_target)
    /\ p_res' = [ok |-> FALSE, out |-> IF p_same THEN p_in ELSE NoFile]
    /\ p_pc' = "ret"
    /\ UNCHANGED <<p_in, p_same, p_target>>

(***************************************************************************)
(* preprocess_directory.  The directory holds at most MaxFiles of the      *)
(* files below; file k is named so that sorted() yields ascending k.       *)
(***************************************************************************)
FileNames == 1..8

FileKind(k) ==
    CASE k = 1 -> Garbage
      [] k = 2 -> Wav(1, 2, 44100, 4851)
      [] k = 3 -> Wav(3, 2, 44100, 4851)
      [] k = 4 -> Wav(2, 2, 44100, 10)
      [] k = 5 -> Wav(1, 2, 16000, 800)
      [] k = 6 -> Wav(1, 1, 22050, 100)
      [] k = 7 -> Wav(2, 2, 16000, 1760)
      [] OTHER -> Wav(2, 1, 44100, 4851)

RECURSIVE SortedSeq(_)
SortedSeq(S) ==
    IF S = {} THEN <<>>
    ELSE LET m == CHOOSE x \in S : \A y \in S : x <= y
         IN  <<m>> \o SortedSeq(S \ {m})

Directories == {S \in SUBSET FileNames : Cardinality(S) <= MaxFiles}

VARIABLES
    a_pc,              \* position in preprocess_directory
    a_inplace,         \* output_path == input_path
    a_in,              \* files of input_path, by name
    a_out,             \* files of output_path when it is another directory
    wav_files,         \* sorted(wav_files)
    a_idx,             \* index of the current wav_file
    info,              \* get_wav_info(wav_file)
    compatible_count,
    padded_count,
    format_issues,
    error_count

audiovars == <<a_pc, a_inplace, a_in, a_out, wav_files, a_idx, info,
               compatible_count, padded_count, format_issues, error_count>>

counters == <<compatible_count, padded_count, format_issues, error_count>>

AudioInit ==
    /\ a_pc = "loop"
    /\ a_inplace \in BOOLEAN
    /\ \E S \in Directories :
          /\ a_in = [k \in FileNames |-> IF k \in S THEN FileKind(k) ELSE NoFile]
          /\ wav_files = SortedSeq(S)
    /\ a_out = [k \in FileNames |-> NoFile]
    /\ a_idx = 1
    /\ info = None
    /\ compatible_count = 0
    /\ padded_count = 0
    /\ format_issues = 0
    /\ error_count = 0

wav_file == wav_files[a_idx]

\* the file at output_file
OutputFile == IF a_inplace THEN a_in[wav_file] ELSE a_out[wav_file]

\* a wave.open(output_file, 'wb') ... writeframes has completed
WriteOutput(content) ==
    IF a_inplace
    THEN /\ a_in' = [a_in EXCEPT ![wav_file] = content]
         /\ UNCHANGED a_out
    ELSE /\ a_out' = [a_out EXCEPT ![wav_file] = content]
         /\ UNCHANGED a_in

NextFile ==
    /\ a_idx' = a_idx + 1
    /\ a_pc' = "loop"

\* lines 209-226, 243, 254: read the file's info and pick the branch
Analyze ==
    /\ a_pc = "loop"
    /\ a_idx <= Len(wav_files)
    /\ info' = get_wav_info(a_in[wav_file])
    /\ IF ~info'.ok
       THEN /\ error_count' = error_count + 1
            /\ a_idx' = a_idx + 1
            /\ UNCHANGED a_pc
       ELSE /\ a_pc' = IF is_too_short(info') THEN "short"
                       ELSE IF NeedsConversion(info'.framerate,
                                               info'.sample_width)
                            THEN "format"
                            ELSE "compat"
            /\ UNCHANGED <<a_idx, error_count>>
    /\ UNCHANGED <<a_inplace, a_in, a_out, wav_files, compatible_count,
                   padded_count, format_issues>>

\* lines 196-198 and 263-276: nothing left, the summary is printed
Summary ==
    /\ a_pc = "loop"
    /\ a_idx > Len(wav_files)
    /\ a_pc' = "done"
    /\ UNCHANGED <<a_inplace, a_in, a_out, wav_files, a_idx, info, counters>>

\* lines 231-232: pad_short_sample returns True
PadShort ==
    /\ a_pc = "short"
    /\ LET r == pad_short_sample(a_in[wav_file], a_inplace, MIN_DURATION)
       IN  /\ r.ok
           /\ WriteOutput(r.out)
    /\ padded_count' = padded_count + 1
    /\ a_pc' = "recheck"
    /\ UNCHANGED <<a_inplace, wav_files, a_idx, info, compatible_count,
                   format_issues, error_count>>

\* lines 231, 239-240: pad_short_sample caught an exception, returned False
PadShortFails ==
    /\ a_pc = "short"
    /\ error_count' = error_count + 1
    /\ NextFile
    /\ UNCHANGED <<a_inplace, a_in, a_out, wav_files, info, compatible_count,
                   padded_count, format_issues>>

\* lines 235-238: the padded output is read again and flagged; convert_format
\* is called with input_path == output_path and writes nothing
Recheck ==
    /\ a_pc = "recheck"
    /\ LET new_info == get_wav_info(OutputFile)
       IN  IF new_info.ok /\ NeedsConversion(new_info.framerate,
                                             new_info.sample_width)
           THEN /\ WriteOutput(convert_format(OutputFile, TRUE).out)
                /\ format_issues' = format_issues + 1
           ELSE UNCHANGED <<a_in, a_out, format_issues>>
    /\ NextFile
    /\ UNCHANGED <<a_inplace, wav_files, info, compatible_count, padded_count,
                   error_count>>

\* lines 243-251: the file is copied through and flagged
FlagFormat ==
    /\ a_pc = "format"
    /\ LET r == convert_format(a_in[wav_file], a_inplace)
       IN  /\ WriteOutput(r.out)
           /\ IF r.ok
              THEN /\ compatible_count' = compatible_count + 1
                   /\ UNCHANGED format_issues
              ELSE /\ format_issues' = format_issues + 1
                   /\ UNCHANGED compatible_count
    /\ NextFile
    /\ UNCHANGED <<a_inplace, wav_files, info, padded_count, error_count>>

\* lines 248, 172-174, 250-251: convert_format caught an exception
FlagFormatFails ==
    /\ a_pc = "format"
    /\ ~a_inplace
    /\ format_issues' = format_issues + 1
    /\ NextFile
    /\ UNCHANGED <<a_inplace, a_in, a_out, wav_files, info, compatible_count,
                   padded_count, error_count>>

\* lines 254-261: counted compatible, copied when the output is elsewhere
Compatible ==
    /\ a_pc = "compat"
    /\ compatible_count' = compatible_count + 1
    /\ IF ~a_inplace
       THEN WriteOutput(pad_short_sample(a_in[wav_file], FALSE,
                                         ZERO_DURATION).out)
       ELSE UNCHANGED <<a_in, a_out>>
    /\ NextFile
    /\ UNCHANGED <<a_inplace, wav_files, info, padded_count, format_issues,
                   error_count>>

\* line 261: the copy caught an exception; the returned False is ignored
CompatibleCopyFails ==
    /\ a_pc = "compat"
    /\ ~a_inplace
    /\ compatible_count' = compatible_count + 1
    /\ NextFile
    /\ UNCHANGED <<a_inplace, a_in, a_out, wav_files, info, padded_count,
                   format_issues, error_count>>

(***************************************************************************)
(* Specifications.  Each one runs one entry point; the state of the        *)
(* others stays as constructed.                                            *)
(***************************************************************************)
vars == <<orgvars, findvars, padvars, audiovars>>

OrgIdle ==
    /\ pc = "idle"
    /\ data = <<>>
    /\ wav_dir = <<>>
    /\ pads = EmptyDict
    /\ pad_index = 0
    /\ offset = 0
    /\ scanned = <<>>
    /\ bank_idx = 0
    /\ pad_in_bank = 0
    /\ bank_dirs = {}
    /\ copies = <<>>
    /\ report = <<>>

FindIdle ==
    /\ f_pc = "idle"
    /\ f_name = <<>>
    /\ f_dir = <<>>
    /\ f_result = NotFound

PadIdle ==
    /\ p_pc = "idle"
    /\ p_in = NoFile
    /\ p_same = FALSE
    /\ p_target = ZERO_DURATION
    /\ p_res = [ok |-> FALSE, out |-> NoFile]

AudioIdle ==
    /\ a_pc = "idle"
    /\ a_inplace = FALSE
    /\ a_in = [k \in FileNames |-> NoFile]
    /\ a_out = [k \in FileNames |-> NoFile]
    /\ wav_files = <<>>
    /\ a_idx = 1
    /\ info = None
    /\ compatible_count = 0
    /\ padded_count = 0
    /\ format_issues = 0
    /\ error_count = 0

OrgFrame == UNCHANGED <<findvars, padvars, audiovars>>
FindFrame == UNCHANGED <<orgvars, padvars, audiovars>>
PadFrame == UNCHANGED <<orgvars, findvars, audiovars>>
AudioFrame == UNCHANGED <<orgvars, findvars, padvars>>

\* create_sp303_banks
Init == OrgInit /\ FindIdle /\ PadIdle /\ AudioIdle
Next ==
    \/ CheckHeader /\ OrgFrame
    \/ ScanRecord /\ OrgFrame
    \/ ScanExit /\ OrgFrame
    \/ EnterBanks /\ OrgFrame
    \/ MakeBankDir /\ OrgFrame
    \/ ProcessPad /\ OrgFrame
    \/ CopyRaises /\ OrgFrame
Spec == Init /\ [][Next]_vars

\* find_wav_file
InitFind == FindInit /\ OrgIdle /\ PadIdle /\ AudioIdle
NextFind == FindCall /\ FindFrame
SpecFind == InitFind /\ [][NextFind]_vars

\* pad_short_sample
InitPad == PadInit /\ OrgIdle /\ FindIdle /\ AudioIdle
NextPad ==
    \/ PadCall /\ PadFrame
    \/ PadRaises /\ PadFrame
SpecPad == InitPad /\ [][NextPad]_vars

\* preprocess_directory
InitAudio == AudioInit /\ OrgIdle /\ FindIdle /\ PadIdle
NextAudio ==
    \/ Analyze /\ AudioFrame
    \/ Summary /\ AudioFrame
    \/ PadShort /\ AudioFrame
    \/ PadShortFails /\ AudioFrame
    \/ Recheck /\ AudioFrame
    \/ FlagFormat /\ AudioFrame
    \/ FlagFormatFails /\ AudioFrame
    \/ Compatible /\ AudioFrame
    \/ CompatibleCopyFails /\ AudioFrame
SpecAudio == InitAudio /\ [][NextAudio]_vars

(***************************************************************************)
(* Properties of parse_pgm_file.  The descriptor layout is restated here   *)
(* from the format description, independently of the scan.                 *)
(***************************************************************************)
InParse == pc \in {"scan", "parsed"}

\* bytes [4,20) without the bytes that are not ASCII hold 'MPC1000 PGM'
MagicPresent ==
    LET window == SubSeq(data, 5, Min(20, Len(data)))
        text == SelectSeq(window, LAMBDA b : b <= 127)
    IN  \E i \in 1..Len(text) :
            /\ i + 10 <= Len(text)
            /\ \A j \in 1..11 : text[i + j - 1] = MAGIC[j]

\* number of records whose 16-byte name field lies inside the buffer
RecordsInBuffer ==
    IF Len(data) < 40 THEN 0 ELSE ((Len(data) - 40) \div 164) + 1

\* the name field of record k (0-based)
RawField(k) == [j \in 1..16 |-> data[24 + 164 * k + j]]

\* number of bytes before the first null byte of a field
RawLen(f) ==
    IF \E j \in 1..16 : f[j] = 0
    THEN (CHOOSE j \in 1..16 : f[j] = 0 /\ \A i \in 1..(j - 1) : f[i] # 0) - 1
    ELSE 16

\* a name of 2 to 16 printable characters without leading or trailing
\* space, null-padded to 16 bytes
WellFormedField(f) ==
    LET n == RawLen(f)
    IN  /\ n >= 2
        /\ \A j \in 1..n : f[j] >= 32 /\ f[j] <= 126
        /\ f[1] # 32 /\ f[n] # 32
        /\ \A j \in (n + 1)..16 : f[j] = 0

\* the text of a field: printable bytes before the first null byte, without
\* the spaces at both ends
FieldText(f) ==
    LET kept == SelectSeq(SubSeq(f, 1, RawLen(f)),
                          LAMBDA b : b >= 32 /\ b <= 126)
        inner == {i \in 1..Len(kept) : kept[i] # 32}
    IN  IF inner = {} THEN <<>>
        ELSE SubSeq(kept, CHOOSE i \in inner : \A j \in inner : i <= j,
                          CHOOSE i \in inner : \A j \in inner : i >= j)

\* number of leading well-formed records
LeadingWellFormed ==
    Cardinality({k \in 0..(RecordsInBuffer - 1) :
                    \A i \in 0..k : WellFormedField(RawField(i))})

\* C1: a buffer whose bytes [4,20), decoded as ASCII with undecodable bytes
\* ignored, do not contain 'MPC1000 PGM' makes parse_pgm_file fail with
\* ValueError: it returns no PadMap, whatever follows the header and however
\* short the buffer is, and no record is scanned before the header check.
C1_BadHeaderFails ==
    /\ (pc = "header") => scanned = <<>>
    /\ (pc \in {"scan", "parsed", "ValueError"} /\ ~MagicPresent) =>
          /\ pc = "ValueError"
          /\ scanned = <<>>
          /\ pads = EmptyDict
          /\ bank_dirs = {} /\ copies = <<>>

\* C1 witness: the header check has rejected a buffer that holds records
\* after the header
C1_Witness ==
    /\ pc = "ValueError"
    /\ ~MagicPresent
    /\ RecordsInBuffer >= 2
    /\ WellFormedField(RawField(0))

\* C2: a descriptor with a valid header whose first N records (N <= 64) hold
\* well-formed null-padded names and which has no further non-empty record
\* parses to a PadMap with keys 0..N-1 and PadMap[k] the k-th name; the scan
\* reads at most 64 records and only name fields that lie inside the buffer.
C2_RoundTrip ==
    /\ InParse =>
          /\ Len(scanned) <= 64
          /\ \A i \in 1..Len(scanned) : scanned[i] + 16 <= Len(data)
    /\ (/\ pc = "parsed"
        /\ MagicPresent
        /\ LeadingWellFormed <= 64
        /\ \A k \in LeadingWellFormed..(RecordsInBuffer - 1) :
              \A j \in 1..16 : RawField(k)[j] = 0) =>
          /\ DOMAIN pads = 0..(LeadingWellFormed - 1)
          /\ \A k \in 0..(LeadingWellFormed - 1) :
                pads[k] = SubSeq(RawField(k), 1, RawLen(RawField(k)))

\* C2 witness: 64 well-formed records followed by an empty 65th one have
\* been parsed
C2_Witness ==
    /\ pc = "parsed"
    /\ MagicPresent
    /\ LeadingWellFormed = 64
    /\ RecordsInBuffer = 65
    /\ \A j \in 1..16 : RawField(64)[j] = 0
    /\ Cardinality(DOMAIN pads) = 64

\* C9: the scan is a two-state machine.  At pad index 0 a record whose text
\* is empty or one character long stops the scan with an empty PadMap; later
\* such a record is skipped and still advances pad index and offset, so the
\* scan goes on to the end of the buffer or 64 records.  Always
\* offset = 24 + 164 * pad_index, and PadMap[k] is the text of the record at
\* 24 + 164 * k, with a key missing exactly at each skipped record.
C9_TwoStateScan ==
    InParse =>
      /\ offset = 24 + 164 * pad_index
      /\ \A i \in 1..Len(scanned) : scanned[i] = 24 + 164 * (i - 1)
      /\ DOMAIN pads \subseteq 0..(pad_index - 1)
      /\ \A k \in 0..(pad_index - 1) :
            LET text == FieldText(RawField(k))
            IN  /\ k \in DOMAIN pads <=> Len(text) >= 2
                /\ k \in DOMAIN pads => pads[k] = text
      /\ (scanned # <<>> /\ Len(FieldText(RawField(0))) < 2) =>
            /\ pc = "parsed"
            /\ pads = EmptyDict
            /\ pad_index = 0
            /\ scanned = <<24>>
      /\ (scanned # <<>> /\ Len(FieldText(RawField(0))) >= 2) =>
            /\ Len(scanned) = pad_index
            /\ pc = "parsed" => pad_index = Min(RecordsInBuffer, 64)

\* C9 witness: the scan went past a skipped record and stored a later one
C9_Witness ==
    /\ pc = "parsed"
    /\ \E k \in 1..(pad_index - 1) :
          /\ k \notin DOMAIN pads
          /\ (k + 1) \in DOMAIN pads

(***************************************************************************)
(* Properties of create_sp303_banks.                                       *)
(***************************************************************************)
AllBankDirs == {<<66, 97, 110, 107, 95, 65 + b>> : b \in 0..7}

\* some file of the directory matches the name under one of the three rules
HasMatch(name) ==
    \E i \in 1..Len(wav_dir) : Contains(Lower(wav_dir[i]), Lower(name))

\* C3: a pad p of the PadMap with a matching file is written to Bank_<letter>
\* with letter chr('A' + p div 8) as SMPL000<p mod 8 + 1>.WAV; no two copies
\* share a location; every bank the loop has reached has its directory, and a
\* completed run has created all 8 directories and written every such pad.
C3_BankSlotMapping ==
    /\ \A i \in 1..Len(copies) :
          LET p == copies[i].pad
          IN  /\ p \in 0..63
              /\ p \in DOMAIN pads
              /\ HasMatch(pads[p])
              /\ copies[i].dir = <<66, 97, 110, 107, 95, 65 + (p \div 8)>>
              /\ copies[i].file =
                    <<83, 77, 80, 76, 48, 48, 48, 48 + (p % 8) + 1,
                      46, 87, 65, 86>>
    /\ \A i, j \in 1..Len(copies) :
          i # j =>
            /\ copies[i].pad # copies[j].pad
            /\ <<copies[i].dir, copies[i].file>> #
                  <<copies[j].dir, copies[j].file>>
    /\ (pc = "pad") =>
          {<<66, 97, 110, 107, 95, 65 + b>> : b \in 0..bank_idx}
              \subseteq bank_dirs
    /\ (pc = "done") =>
          /\ bank_dirs = AllBankDirs
          /\ Cardinality(bank_dirs) = 8
          /\ \A p \in 0..63 :
                (p \in DOMAIN pads /\ HasMatch(pads[p])) =>
                    \E i \in 1..Len(copies) : copies[i].pad = p

\* C3 witness: a completed run that wrote a pad of bank A while no pad maps to
\* banks B..H, whose directories exist all the same
C3_Witness ==
    /\ pc = "done"
    /\ copies # <<>>
    /\ DOMAIN pads \subseteq 0..7
    /\ bank_dirs = AllBankDirs

\* C4: a pad without a matching file is reported and the run goes on; a copy
\* that fails is a per-file error and the run goes on as well: whenever the
\* run has ended, every pad 0..63 has been processed and all 8 banks exist.
C4_BatchNeverAborts ==
    (pc \in {"done", "OSError"}) =>
      /\ \A p \in 0..63 : \E i \in 1..Len(report) : report[i].pad = p
      /\ bank_dirs = AllBankDirs

(***************************************************************************)
(* Properties of find_wav_file.                                            *)
(***************************************************************************)
SameLetter(x, y) ==
    \/ x = y
    \/ x >= 65 /\ x <= 90 /\ y = x + 32
    \/ y >= 65 /\ y <= 90 /\ x = y + 32

EqualNoCase(a, b) ==
    Len(a) = Len(b) /\ \A i \in 1..Len(a) : SameLetter(a[i], b[i])

InsideNoCase(needle, hay) ==
    \E off \in 0..(Len(hay) - Len(needle)) :
        \A i \in 1..Len(needle) : SameLetter(needle[i], hay[off + i])

Least(S) == CHOOSE i \in S : \A j \in S : i <= j

\* C7: find_wav_file returns '<name>.wav' when it exists; otherwise the first
\* candidate whose stem equals the name ignoring case; otherwise the first
\* candidate whose stem contains the name ignoring case; otherwise nothing.
C7_MatchPriority ==
    (f_pc = "ret") =>
      LET all == 1..Len(f_dir)
          exact == {i \in all : f_dir[i] = f_name}
          nocase == {i \in all : EqualNoCase(f_dir[i], f_name)}
          partial == {i \in all : InsideNoCase(f_name, f_dir[i])}
      IN  IF exact # {}
          THEN f_result = [found |-> TRUE, stem |-> f_name]
          ELSE IF nocase # {}
          THEN f_result = [found |-> TRUE, stem |-> f_dir[Least(nocase)]]
          ELSE IF partial # {}
          THEN f_result = [found |-> TRUE, stem |-> f_dir[Least(partial)]]
          ELSE ~f_result.found

\* C7 witness: name 'KICK', candidates kick2.wav then kick.wav: kick.wav is
\* returned although kick2.wav comes first and contains the name
C7_Witness ==
    /\ f_pc = "ret"
    /\ f_name = <<75, 73, 67, 75>>
    /\ f_dir = <<<<107, 105, 99, 107, 50>>, <<107, 105, 99, 107>>>>
    /\ f_result = [found |-> TRUE, stem |-> <<107, 105, 99, 107>>]

(***************************************************************************)
(* Properties of pad_short_sample.                                         *)
(***************************************************************************)
PadReturned == p_pc = "ret" /\ p_res.ok

\* frame_count / frame_rate < target_duration
PadInputShort ==
    NFrames(p_in) * p_target.den < p_target.num * p_in.framerate

\* C6: for frame_count / frame_rate < target_duration the output keeps
\* channel count, sample width and frame rate, has
\* floor(target_duration * frame_rate) frames, starts with the input's bytes
\* and is zero after them; otherwise the output equals the input.  The output
\* never has fewer frames than the input.
C6_PadContract ==
    PadReturned =>
      LET o == p_res.out
          size == p_in.nchannels * p_in.sampwidth
          n == Len(p_in.frames) \div size
          floor == (p_target.num * p_in.framerate) \div p_target.den
      IN  /\ o.readable
          /\ o.nchannels = p_in.nchannels
          /\ o.sampwidth = p_in.sampwidth
          /\ o.framerate = p_in.framerate
          /\ Len(o.frames) >= n * size
          /\ IF PadInputShort
             THEN /\ Len(o.frames) = floor * size
                  /\ \A i \in 1..(n * size) : o.frames[i] = p_in.frames[i]
                  /\ \A i \in (n * size + 1)..Len(o.frames) : o.frames[i] = 0
             ELSE o.frames = p_in.frames

\* C6 witness: a stereo file of at least one frame has been padded
C6_Witness ==
    /\ PadReturned
    /\ PadInputShort
    /\ p_in.nchannels = 2
    /\ NFrames(p_in) >= 1
    /\ NFrames(p_res.out) > NFrames(p_in)

\* C10: padding a too-short file to 0.11 s yields frame_count_out / frame_rate
\* >= 0.11 at every frame rate
C10_PaddedMeetsMinimum ==
    (PadReturned /\ p_target = MIN_DURATION /\ PadInputShort) =>
        NFrames(p_res.out) * 100 >= 11 * p_in.framerate

(***************************************************************************)
(* Properties of preprocess_directory.                                     *)
(***************************************************************************)
\* the verdict of the Audio Compliance Analyzer
Verdict(i) ==
    IF ~i.ok THEN "Unreadable"
    ELSE IF i.frames * 100 < 11 * i.framerate THEN "TooShort"
    ELSE IF i.framerate # 44100 \/ i.sample_width # 2 \/ i.channels \notin {1, 2}
         THEN "FormatMismatch"
    ELSE "Compliant"

\* C5: the branch taken for a file follows the precedence Unreadable,
\* TooShort, FormatMismatch, Compliant; a long-enough 44100 Hz 16-bit file
\* with a channel count other than 1 or 2 is FormatMismatch, not Compliant.
C5_ClassificationPrecedence ==
    /\ (a_pc = "short") => Verdict(info) = "TooShort"
    /\ (a_pc = "format") => Verdict(info) = "FormatMismatch"
    /\ (a_pc = "compat") => Verdict(info) = "Compliant"
    /\ (a_pc = "loop" /\ a_idx > 1 /\ Verdict(info) = "Unreadable") =>
          error_count >= 1

\* the current file is too short and does not have the target rate and width
ShortAndMismatched ==
    /\ info.ok
    /\ info.frames * 100 < 11 * info.framerate
    /\ (info.framerate # 44100 \/ info.sample_width # 2)

\* C8: a too-short file whose rate is not 44100 Hz or whose width is not 2
\* bytes is first padded to floor(0.11 * frame_rate) frames at its own frame
\* rate and counted as padded, and only then flagged and counted as a format
\* issue; flagging leaves the padded output unchanged.  (When the padded
\* output cannot be written the file is counted as an error instead.)
C8_Step ==
    /\ (a_pc = "short" /\ ShortAndMismatched) =>
          \/ /\ a_pc' = "recheck"
             /\ padded_count' = padded_count + 1
             /\ format_issues' = format_issues
             /\ OutputFile'.readable
             /\ OutputFile'.framerate = info.framerate
             /\ OutputFile'.sampwidth = info.sample_width
             /\ OutputFile'.nchannels = info.channels
             /\ NFrames(OutputFile') = (11 * info.framerate) \div 100
          \/ /\ a_pc' = "loop"
             /\ error_count' = error_count + 1
             /\ UNCHANGED <<a_in, a_out, padded_count, format_issues>>
    /\ (a_pc = "recheck" /\ ShortAndMismatched) =>
          /\ format_issues' = format_issues + 1
          /\ UNCHANGED <<a_in, a_out, padded_count, error_count>>
    /\ (ShortAndMismatched /\ info' = info /\ format_issues' # format_issues) =>
          a_pc = "recheck"

C8_PadThenFlag == [][C8_Step]_vars

\* C8 witness: the 16000 Hz, 16-bit, mono, 50 ms file came out with 1760
\* frames at 16000 Hz, counted once as padded and once as a format issue
C8_Witness ==
    /\ a_pc = "done"
    /\ ~a_inplace
    /\ wav_files = <<5>>
    /\ a_in[5].framerate = 16000 /\ NFrames(a_in[5]) = 800
    /\ a_out[5].framerate = 16000 /\ NFrames(a_out[5]) = 1760
    /\ SubSeq(a_out[5].frames, 1, 1600) = a_in[5].frames
    /\ padded_count = 1
    /\ format_issues = 1

=============================================================================
